---- MODULE Spec2Model ----
(***************************************************************************)
(* Model of src/smarttalkwith-voice/src/App.tsx: the vocabulary builder's  *)
(* component state (words, generatedSentences, loading, error, the two     *)
(* inputs), the localStorage entries "words" and "sentences", the requests *)
(* in flight at the AI service, and the handlers that change them.         *)
(*                                                                         *)
(* Text is a sequence of characters (one-character strings).  JSON text is *)
(* a sequence of characters too, except that a quoted key of an object is  *)
(* kept as one unit ("myanmar" stands for the seven quoted characters).    *)
(***************************************************************************)
EXTENDS Integers, Sequences, FiniteSets, TLC

\* ------------------------------------------------------------------ bounds
MaxClock == 3
MaxWords == 3
MaxSentences == 1
MaxPending == 2
MaxCallWords == 2
MaxCallSentences == 1
MaxCallPending == 2

\* ------------------------------------------------------------- characters
NL == "\n"
SP == " "
QUOTE == "\""
BSLASH == "\\"

\* String.prototype.toLowerCase on one character of the model's alphabet.
LowerChar(c) ==
  CASE c = "A" -> "a"
    [] c = "B" -> "b"
    [] OTHER -> c

\* String.prototype.toLowerCase.
ToLowerCase(s) == [i \in 1..Len(s) |-> LowerChar(s[i])]

\* Whether t occurs in s at offset i (characters i+1 .. i+Len(t)).
RECURSIVE MatchAt(_, _, _, _)
MatchAt(s, t, i, k) ==
  IF k > Len(t) THEN TRUE
  ELSE IF s[i + k] # t[k] THEN FALSE
  ELSE MatchAt(s, t, i, k + 1)

\* String.prototype.includes: scan the offsets left to right.
RECURSIVE IncludesFrom(_, _, _)
IncludesFrom(s, t, i) ==
  IF i + Len(t) > Len(s) THEN FALSE
  ELSE IF MatchAt(s, t, i, 1) THEN TRUE
  ELSE IncludesFrom(s, t, i + 1)

Includes(s, t) == IncludesFrom(s, t, 0)

IsSpace(c) == c = SP \/ c = NL

\* String.prototype.trim: drop leading, then trailing, white space.
RECURSIVE TrimStart(_)
TrimStart(s) ==
  IF s = <<>> THEN s
  ELSE IF IsSpace(Head(s)) THEN TrimStart(Tail(s))
  ELSE s

RECURSIVE TrimEnd(_)
TrimEnd(s) ==
  IF s = <<>> THEN s
  ELSE IF IsSpace(s[Len(s)]) THEN TrimEnd(SubSeq(s, 1, Len(s) - 1))
  ELSE s

Trim(s) == TrimEnd(TrimStart(s))

\* String.prototype.split('\n'): the pieces between newlines, cur being the
\* piece under construction; always at least one piece.
RECURSIVE SplitFrom(_, _, _)
SplitFrom(s, i, cur) ==
  IF i > Len(s) THEN <<cur>>
  ELSE IF s[i] = NL THEN <<cur>> \o SplitFrom(s, i + 1, <<>>)
  ELSE SplitFrom(s, i + 1, Append(cur, s[i]))

SplitLines(s) == SplitFrom(s, 1, <<>>)

\* Number.prototype.toString for a non-negative integer.
DigitChar(d) ==
  CASE d = 0 -> "0" [] d = 1 -> "1" [] d = 2 -> "2" [] d = 3 -> "3"
    [] d = 4 -> "4" [] d = 5 -> "5" [] d = 6 -> "6" [] d = 7 -> "7"
    [] d = 8 -> "8" [] OTHER -> "9"

RECURSIVE NumToString(_)
NumToString(n) ==
  IF n < 10 THEN <<DigitChar(n)>>
  ELSE Append(NumToString(n \div 10), DigitChar(n % 10))

\* ------------------------------------------------------------------- JSON
\* JSON.stringify of a string: quoted, with quote, backslash and newline
\* escaped.
RECURSIVE EscapeChars(_)
EscapeChars(s) ==
  IF s = <<>> THEN <<>>
  ELSE LET c == Head(s)
           e == CASE c = QUOTE -> <<BSLASH, QUOTE>>
                  [] c = BSLASH -> <<BSLASH, BSLASH>>
                  [] c = NL -> <<BSLASH, "n">>
                  [] OTHER -> <<c>>
       IN e \o EscapeChars(Tail(s))

StringifyString(s) == <<QUOTE>> \o EscapeChars(s) \o <<QUOTE>>

\* JSON.stringify of an object whose keys, in insertion order, are keys.
RECURSIVE StringifyMembers(_, _)
StringifyMembers(obj, keys) ==
  IF keys = <<>> THEN <<>>
  ELSE <<Head(keys), ":">> \o StringifyString(obj[Head(keys)])
       \o (IF Len(keys) > 1 THEN <<",">> ELSE <<>>)
       \o StringifyMembers(obj, Tail(keys))

StringifyObject(obj, keys) == <<"{">> \o StringifyMembers(obj, keys) \o <<"}">>

RECURSIVE StringifyElements(_, _)
StringifyElements(list, keys) ==
  IF list = <<>> THEN <<>>
  ELSE StringifyObject(Head(list), keys)
       \o (IF Len(list) > 1 THEN <<",">> ELSE <<>>)
       \o StringifyElements(Tail(list), keys)

\* JSON.stringify of an array of such objects.
JsonStringify(list, keys) == <<"[">> \o StringifyElements(list, keys) \o <<"]">>

WordKeys == <<"id", "myanmar", "indonesian", "type">>
SentenceKeys == <<"id", "myanmar", "indonesian">>
ResponseKeys == <<"indonesianTranslation", "wordType">>

KeyNames == {"id", "myanmar", "indonesian", "type", "indonesianTranslation", "wordType"}

\* A failed parse: JSON.parse throws SyntaxError.
ParseFail == [ok |-> FALSE, val |-> <<>>, next |-> 0]

\* The characters of a JSON string from position i (after the opening
\* quote) to its closing quote, unescaped.
RECURSIVE ParseChars(_, _, _)
ParseChars(t, i, acc) ==
  IF i > Len(t) THEN ParseFail
  ELSE IF t[i] = QUOTE THEN [ok |-> TRUE, val |-> acc, next |-> i + 1]
  ELSE IF t[i] = BSLASH THEN
    IF i + 1 > Len(t) THEN ParseFail
    ELSE IF t[i + 1] = "n" THEN ParseChars(t, i + 2, Append(acc, NL))
    ELSE IF t[i + 1] \in {QUOTE, BSLASH} THEN ParseChars(t, i + 2, Append(acc, t[i + 1]))
    ELSE ParseFail
  ELSE IF t[i] = NL \/ t[i] \in KeyNames THEN ParseFail
  ELSE ParseChars(t, i + 1, Append(acc, t[i]))

ParseString(t, i) ==
  IF i > Len(t) \/ t[i] # QUOTE THEN ParseFail ELSE ParseChars(t, i + 1, <<>>)

\* The members of an object from position i (a key) to the closing brace.
RECURSIVE ParseMembers(_, _, _)
ParseMembers(t, i, acc) ==
  IF i + 1 > Len(t) \/ t[i] \notin KeyNames \/ t[i + 1] # ":" THEN ParseFail
  ELSE LET v == ParseString(t, i + 2)
           obj == (t[i] :> v.val) @@ acc
       IN IF ~v.ok \/ v.next > Len(t) THEN ParseFail
          ELSE IF t[v.next] = "}" THEN [ok |-> TRUE, val |-> obj, next |-> v.next + 1]
          ELSE IF t[v.next] = "," THEN ParseMembers(t, v.next + 1, obj)
          ELSE ParseFail

ParseObject(t, i) ==
  IF i + 1 > Len(t) \/ t[i] # "{" THEN ParseFail
  ELSE IF t[i + 1] = "}" THEN [ok |-> TRUE, val |-> <<>>, next |-> i + 2]
  ELSE ParseMembers(t, i + 1, <<>>)

\* The elements of an array from position i (an object) to the closing bracket.
RECURSIVE ParseElements(_, _, _)
ParseElements(t, i, acc) ==
  LET o == ParseObject(t, i)
  IN IF ~o.ok \/ o.next > Len(t) THEN ParseFail
     ELSE IF t[o.next] = "]" THEN [ok |-> TRUE, val |-> Append(acc, o.val), next |-> o.next + 1]
     ELSE IF t[o.next] = "," THEN ParseElements(t, o.next + 1, Append(acc, o.val))
     ELSE ParseFail

ParseArray(t, i) ==
  IF i + 1 > Len(t) \/ t[i] # "[" THEN ParseFail
  ELSE IF t[i + 1] = "]" THEN [ok |-> TRUE, val |-> <<>>, next |-> i + 2]
  ELSE ParseElements(t, i + 1, <<>>)

\* JSON.parse: one value (an array of objects, or an object) and nothing
\* after it; anything else throws.
JsonParse(t) ==
  LET v == IF t # <<>> /\ t[1] = "[" THEN ParseArray(t, 1) ELSE ParseObject(t, 1)
  IN IF v.ok /\ v.next = Len(t) + 1 THEN [ok |-> TRUE, val |-> v.val]
     ELSE [ok |-> FALSE, val |-> <<>>]

\* ------------------------------------------------------------------ state
VARIABLES
  ai,                 \* whether the module-level client exists (GEMINI_API_KEY set)
  phase,              \* "init" before the first effects, "running", or "crashed"
  storage,            \* localStorage: the entries "words" and "sentences"
  words,              \* useState<Word[]>
  generatedSentences, \* useState<Sentence[]>
  newMyanmarWord,     \* useState: the new-word input
  searchTerm,         \* useState: the search input
  loading,            \* useState: the busy flag
  error,              \* useState<string | null>
  now,                \* Date.now()
  pending,            \* generateContent calls awaiting their response, each with
                      \* the state its handler's closure captured
  lastEvent           \* the handler or callback that ran last, and its argument

vars == <<ai, phase, storage, words, generatedSentences, newMyanmarWord,
          searchTerm, loading, error, now, pending, lastEvent>>

\* localStorage.getItem returns null for a missing entry.
Missing == <<"null">>
\* error === null.
NoError == "null"

ApiKeyMissingMsg == "API Key is missing. Please configure GEMINI_API_KEY."
SaveFailedMsg == "Failed to save word. Please try again."
TwoWordsMsg == "Please add at least two words to generate a sentence."
GenerateFailedMsg == "Failed to generate sentence. Please try again."
SyntaxErrorMsg == "Unexpected end of JSON input"

\* ----------------------------------------------------------------- inputs
\* What the user types into the new-word input.
NewWordInputs == {<<SP>>, <<"A", "b">>}
\* What the user types into the search input.
SearchTerms == {<<>>, <<"b", "B">>, <<"B", QUOTE>>}
\* response.text of a translate call: a text that follows the response
\* schema, and one cut short.
TranslateTexts ==
  { StringifyObject([indonesianTranslation |-> <<"b", QUOTE>>, wordType |-> <<"V">>], ResponseKeys),
    <<"{", "indonesianTranslation", ":">> }
\* response.text of a sentence call.
SentenceTexts ==
  { <<"a", NL, "b">>, <<>>, <<SP, "a", SP, NL, "b", SP, NL, "a">> }
\* What a rejected generateContent call throws: an Error, an object carrying
\* response.data.error.message, or anything else.
Rejections ==
  { [kind |-> "Error", message |-> "Failed to fetch"],
    [kind |-> "response", message |-> "Quota exceeded"],
    [kind |-> "other", message |-> ""] }
\* The entries localStorage may hold when the page opens: none, the empty
\* string, text that is not JSON, and what an earlier session saved (at the
\* times 0 and 1; this session starts at FirstClock).
StoredWord == [id |-> <<"1">>, myanmar |-> <<"B", "B">>, indonesian |-> <<"a">>, type |-> <<"N">>]
OlderWord == [id |-> <<"0">>, myanmar |-> <<"a">>, indonesian |-> <<"A">>, type |-> <<"V">>]
StoredWords == <<StoredWord, OlderWord>>
StoredSentence == [id |-> <<"0">>, myanmar |-> <<"B">>, indonesian |-> <<"a">>]
MalformedEntry == <<"[", "{">>
StoredWordEntries ==
  { Missing, <<>>, MalformedEntry, JsonStringify(<<>>, WordKeys), JsonStringify(StoredWords, WordKeys) }
StoredSentenceEntries ==
  { Missing, <<>>, MalformedEntry, JsonStringify(<<>>, SentenceKeys),
    JsonStringify(<<StoredSentence>>, SentenceKeys) }

\* The last handler or callback: its name, how it ended, and its argument (text).
\* Date.now() when the page opens.
FirstClock == 2

Event(op, out, arg) == [op |-> op, out |-> out, arg |-> arg]

Init ==
  /\ ai \in BOOLEAN
  /\ phase = "init"
  /\ storage \in [words : StoredWordEntries, sentences : StoredSentenceEntries]
  /\ words = <<>>
  /\ generatedSentences = <<>>
  /\ newMyanmarWord = <<>>
  /\ searchTerm = <<>>
  /\ loading = FALSE
  /\ error = NoError
  /\ now = FirstClock
  /\ pending = <<>>
  /\ lastEvent = Event("init", "", <<>>)

\* ---------------------------------------------------------------- effects
\* The save effects: localStorage.setItem(name, JSON.stringify(collection)).
\* (Variant: the words effect does not run again, the entry stays as it is.)
SavedWordsStale(w) == storage.words

SavedWords(w) == JsonStringify(w, WordKeys)
SavedSentences(s) == JsonStringify(s, SentenceKeys)

\* The load effect's test `if (storedWords)`: null and "" are falsy.
Truthy(entry) == entry # Missing /\ entry # <<>>

\* The first commit's effects and the render they cause.  The load effect
\* parses each truthy entry and sets the state; JSON.parse throwing inside the
\* effect is caught by nobody, so React unmounts the tree (no error boundary)
\* and the later effects of the component do not run.  Otherwise the save
\* effects write "[]" for the empty first render, and after the re-render
\* write again each collection that was loaded.
Mount ==
  /\ phase = "init"
  /\ LET pw == JsonParse(storage.words)
         ps == JsonParse(storage.sentences)
         throws == \/ Truthy(storage.words) /\ ~pw.ok
                   \/ Truthy(storage.sentences) /\ ~ps.ok
         w == IF Truthy(storage.words) THEN pw.val ELSE <<>>
         s == IF Truthy(storage.sentences) THEN ps.val ELSE <<>>
     IN IF throws
        THEN /\ phase' = "crashed"
             /\ UNCHANGED <<storage, words, generatedSentences>>
        ELSE /\ phase' = "running"
             /\ words' = w
             /\ generatedSentences' = s
             /\ storage' = [words |-> SavedWords(w), sentences |-> SavedSentences(s)]
  /\ lastEvent' = Event("mount", IF phase' = "crashed" THEN "threw" ELSE "loaded", <<>>)
  /\ UNCHANGED <<ai, newMyanmarWord, searchTerm, loading, error, now, pending>>

\* --------------------------------------------------------------- handlers
\* A generateContent call in flight, with what the calling handler reads
\* from its closure after the await: the words and newMyanmarWord
\* (handleSaveWord) or the generatedSentences (handleGenerateSentence) of the
\* render in which the handler was created.
TranslateRequest ==
  [kind |-> "translate", words |-> words, sentences |-> <<>>, input |-> newMyanmarWord]
GenerateRequest ==
  [kind |-> "generate", words |-> <<>>, sentences |-> generatedSentences, input |-> <<>>]

RemoveAt(seq, i) == SubSeq(seq, 1, i - 1) \o SubSeq(seq, i + 1, Len(seq))

\* handleSaveWord up to its await.
HandleSaveWord ==
  IF Trim(newMyanmarWord) = <<>>
  THEN /\ lastEvent' = Event("handleSaveWord", "blank", <<>>)
       /\ UNCHANGED <<loading, error, pending>>
  ELSE IF ~ai
  THEN /\ error' = ApiKeyMissingMsg
       /\ loading' = FALSE
       /\ lastEvent' = Event("handleSaveWord", "nokey", <<>>)
       /\ UNCHANGED pending
  ELSE /\ loading' = TRUE
       /\ error' = NoError
       /\ pending' = Append(pending, TranslateRequest)
       /\ lastEvent' = Event("handleSaveWord", "sent", <<>>)

\* (Variant: no default message, err.message is shown whatever err is.)
SaveErrorMessageNoDefault(err) == err.message

\* The catch block of handleSaveWord: the message shown for what was thrown.
SaveErrorMessage(err) ==
  IF err.kind = "Error" THEN err.message
  ELSE IF err.kind = "response" THEN err.message
  ELSE SaveFailedMsg

\* const newWord: Word = {...}
NewWord(req, parsed) ==
  [id |-> NumToString(now), myanmar |-> req.input,
   indonesian |-> parsed.indonesianTranslation, type |-> parsed.wordType]

\* setWords([newWord, ...words]), words being the closure's.
WordsAfterSave(req, parsed) == <<NewWord(req, parsed)>> \o req.words

\* handleSaveWord after its await, the call having resolved with response.text.
TranslateResolves(i, text) ==
  /\ pending[i].kind = "translate"
  /\ LET req == pending[i]
         parsed == JsonParse(text)
     IN IF parsed.ok
        THEN /\ words' = WordsAfterSave(req, parsed.val)
             /\ storage' = [storage EXCEPT !.words = SavedWords(words')]
             /\ newMyanmarWord' = <<>>
             /\ error' = error
             /\ lastEvent' = Event("translateResolves", "added", text)
        ELSE /\ error' = SaveErrorMessage([kind |-> "Error", message |-> SyntaxErrorMsg])
             /\ lastEvent' = Event("translateResolves", "unparsable", text)
             /\ UNCHANGED <<words, storage, newMyanmarWord>>
  /\ loading' = FALSE
  /\ pending' = RemoveAt(pending, i)
  /\ UNCHANGED <<ai, phase, generatedSentences, searchTerm, now>>

\* handleSaveWord after its await, the call having been rejected with err.
TranslateRejects(i, err) ==
  /\ pending[i].kind = "translate"
  /\ error' = SaveErrorMessage(err)
  /\ loading' = FALSE
  /\ pending' = RemoveAt(pending, i)
  /\ lastEvent' = Event("translateRejects", "rejected", <<>>)
  /\ UNCHANGED <<ai, phase, storage, words, generatedSentences, newMyanmarWord, searchTerm, now>>

\* handleDeleteWord / handleDeleteSentence: filter((r) => r.id !== id).
DeleteById(list, id) == SelectSeq(list, LAMBDA r : r.id # id)

HandleDeleteWord(id) ==
  /\ words' = DeleteById(words, id)
  /\ storage' = [storage EXCEPT !.words = SavedWords(words')]
  /\ lastEvent' = Event("handleDeleteWord", "", id)
  /\ UNCHANGED <<ai, phase, generatedSentences, newMyanmarWord, searchTerm, loading, error, now, pending>>

HandleDeleteSentence(id) ==
  /\ generatedSentences' = DeleteById(generatedSentences, id)
  /\ storage' = [storage EXCEPT !.sentences = SavedSentences(generatedSentences')]
  /\ lastEvent' = Event("handleDeleteSentence", "", id)
  /\ UNCHANGED <<ai, phase, words, newMyanmarWord, searchTerm, loading, error, now, pending>>

\* (Variant: the texts are compared as they are, without toLowerCase.)
WordMatchesCaseSensitive(word, term) ==
  Includes(word.myanmar, term) \/ Includes(word.indonesian, term)

\* The filter predicate of filteredWords.
WordMatches(word, term) ==
  \/ Includes(ToLowerCase(word.myanmar), ToLowerCase(term))
  \/ Includes(ToLowerCase(word.indonesian), ToLowerCase(term))

\* const filteredWords = words.filter(...), computed at every render.
FilteredWords == SelectSeq(words, LAMBDA w : WordMatches(w, searchTerm))

\* (Variant: no test of words.length before the request.)
HandleGenerateSentenceUngated ==
  IF ~ai
  THEN /\ error' = ApiKeyMissingMsg
       /\ loading' = FALSE
       /\ lastEvent' = Event("handleGenerateSentence", "nokey", <<>>)
       /\ UNCHANGED pending
  ELSE /\ loading' = TRUE
       /\ error' = NoError
       /\ pending' = Append(pending, GenerateRequest)
       /\ lastEvent' = Event("handleGenerateSentence", "sent", <<>>)

\* handleGenerateSentence up to its await.  The prompt is built from a random
\* choice of up to four words; the response does not depend on it here.
HandleGenerateSentence ==
  IF ~ai
  THEN /\ error' = ApiKeyMissingMsg
       /\ loading' = FALSE
       /\ lastEvent' = Event("handleGenerateSentence", "nokey", <<>>)
       /\ UNCHANGED pending
  ELSE IF Len(words) < 2
  THEN /\ error' = TwoWordsMsg
       /\ lastEvent' = Event("handleGenerateSentence", "validation", <<>>)
       /\ UNCHANGED <<loading, pending>>
  ELSE /\ loading' = TRUE
       /\ error' = NoError
       /\ pending' = Append(pending, GenerateRequest)
       /\ lastEvent' = Event("handleGenerateSentence", "sent", <<>>)

\* (Variant: the lines are not trimmed.)
GeneratedPairUntrimmed(text) ==
  LET lines == SplitLines(text)
  IN [myanmar |-> IF Len(lines) >= 1 THEN lines[1] ELSE <<>>,
      indonesian |-> IF Len(lines) >= 2 THEN lines[2] ELSE <<>>]

\* generatedText.split('\n').map(s => s.trim()), destructured into its first
\* two elements, each replaced by "" when undefined or empty.
GeneratedPair(text) ==
  LET lines == SplitLines(text)
      parts == [k \in 1..Len(lines) |-> Trim(lines[k])]
  IN [myanmar |-> IF Len(parts) >= 1 THEN parts[1] ELSE <<>>,
      indonesian |-> IF Len(parts) >= 2 THEN parts[2] ELSE <<>>]

\* const newSentence: Sentence = {...}
NewSentence(text) ==
  [id |-> NumToString(now), myanmar |-> GeneratedPair(text).myanmar,
   indonesian |-> GeneratedPair(text).indonesian]

\* setGeneratedSentences([newSentence, ...generatedSentences]), the closure's.
SentencesAfterGenerate(req, text) == <<NewSentence(text)>> \o req.sentences

\* handleGenerateSentence after its await, the call having resolved.
GenerateResolves(i, text) ==
  /\ pending[i].kind = "generate"
  /\ generatedSentences' = SentencesAfterGenerate(pending[i], text)
  /\ storage' = [storage EXCEPT !.sentences = SavedSentences(generatedSentences')]
  /\ loading' = FALSE
  /\ pending' = RemoveAt(pending, i)
  /\ lastEvent' = Event("generateResolves", "added", text)
  /\ UNCHANGED <<ai, phase, words, newMyanmarWord, searchTerm, error, now>>

\* handleGenerateSentence after its await, the call having been rejected.
GenerateRejects(i) ==
  /\ pending[i].kind = "generate"
  /\ error' = GenerateFailedMsg
  /\ loading' = FALSE
  /\ pending' = RemoveAt(pending, i)
  /\ lastEvent' = Event("generateRejects", "rejected", <<>>)
  /\ UNCHANGED <<ai, phase, storage, words, generatedSentences, newMyanmarWord, searchTerm, now>>

\* -------------------------------------------------------------- the view
\* (Variant: the save button is never disabled.)
SaveNeverDisabled == FALSE

\* disabled={loading} of the new-word input and of the save button.
SaveDisabled == loading
\* disabled={loading || words.length < 2} of the create-sentence button.
CreateDisabled == loading \/ Len(words) < 2

\* Room for one more request and one more record within the model's bounds.
RoomForWord == Len(pending) < MaxPending /\ Len(words) < MaxWords
RoomForSentence == Len(pending) < MaxPending /\ Len(generatedSentences) < MaxSentences

ClickSaveWord ==
  /\ phase = "running"
  /\ ~SaveDisabled
  /\ RoomForWord
  /\ HandleSaveWord
  /\ UNCHANGED <<ai, phase, storage, words, generatedSentences, newMyanmarWord, searchTerm, now>>

ClickCreateSentence ==
  /\ phase = "running"
  /\ ~CreateDisabled
  /\ RoomForSentence
  /\ HandleGenerateSentence
  /\ UNCHANGED <<ai, phase, storage, words, generatedSentences, newMyanmarWord, searchTerm, now>>

\* A delete button exists for every displayed word, and for every sentence.
ClickDeleteWord ==
  /\ phase = "running"
  /\ \E k \in 1..Len(FilteredWords) : HandleDeleteWord(FilteredWords[k].id)

ClickDeleteSentence ==
  /\ phase = "running"
  /\ \E k \in 1..Len(generatedSentences) : HandleDeleteSentence(generatedSentences[k].id)

\* onChange of the new-word input.
ChangeNewWord ==
  /\ phase = "running"
  /\ ~SaveDisabled
  /\ \E v \in NewWordInputs :
       /\ v # newMyanmarWord
       /\ newMyanmarWord' = v
       /\ lastEvent' = Event("setNewMyanmarWord", "", <<>>)
  /\ UNCHANGED <<ai, phase, storage, words, generatedSentences, searchTerm, loading, error, now, pending>>

\* onChange of the search input.
ChangeSearchTerm ==
  /\ phase = "running"
  /\ \E v \in SearchTerms :
       /\ v # searchTerm
       /\ searchTerm' = v
       /\ lastEvent' = Event("setSearchTerm", "", <<>>)
  /\ UNCHANGED <<ai, phase, storage, words, generatedSentences, newMyanmarWord, loading, error, now, pending>>

\* The service answers a call in flight.
TranslateSettles ==
  /\ phase = "running"
  /\ \E i \in 1..Len(pending) :
       \/ \E text \in TranslateTexts : TranslateResolves(i, text)
       \/ \E err \in Rejections : TranslateRejects(i, err)

GenerateSettles ==
  /\ phase = "running"
  /\ \E i \in 1..Len(pending) :
       \/ \E text \in SentenceTexts : GenerateResolves(i, text)
       \/ GenerateRejects(i)

\* A millisecond passes.
Tick ==
  /\ now < MaxClock
  /\ now' = now + 1
  /\ lastEvent' = Event("tick", "", <<>>)
  /\ UNCHANGED <<ai, phase, storage, words, generatedSentences, newMyanmarWord,
                 searchTerm, loading, error, pending>>

\* The page as the user drives it.
Next ==
  \/ Mount
  \/ ClickSaveWord
  \/ ClickCreateSentence
  \/ ClickDeleteWord
  \/ ClickDeleteSentence
  \/ ChangeNewWord
  \/ ChangeSearchTerm
  \/ TranslateSettles
  \/ GenerateSettles
  \/ Tick

Spec == Init /\ [][Next]_vars

\* The handlers called as functions, whatever the controls' disabled
\* attributes say, with the id of a stored record or of the first new one,
\* present or not.
Ids == {NumToString(0), NumToString(FirstClock)}

CallRoomForWord == Len(pending) < MaxCallPending /\ Len(words) < MaxCallWords
CallRoomForSentence ==
  Len(pending) < MaxCallPending /\ Len(generatedSentences) < MaxCallSentences

CallHandleSaveWord ==
  /\ phase = "running"
  /\ CallRoomForWord
  /\ HandleSaveWord
  /\ UNCHANGED <<ai, phase, storage, words, generatedSentences, newMyanmarWord, searchTerm, now>>

CallHandleGenerateSentence ==
  /\ phase = "running"
  /\ CallRoomForSentence
  /\ HandleGenerateSentence
  /\ UNCHANGED <<ai, phase, storage, words, generatedSentences, newMyanmarWord, searchTerm, now>>

CallHandleDeleteWord ==
  /\ phase = "running"
  /\ \E id \in Ids : HandleDeleteWord(id)

CallHandleDeleteSentence ==
  /\ phase = "running"
  /\ \E id \in Ids : HandleDeleteSentence(id)

CallSetNewMyanmarWord ==
  /\ phase = "running"
  /\ \E v \in NewWordInputs :
       /\ v # newMyanmarWord
       /\ newMyanmarWord' = v
       /\ lastEvent' = Event("setNewMyanmarWord", "", <<>>)
  /\ UNCHANGED <<ai, phase, storage, words, generatedSentences, searchTerm, loading, error, now, pending>>

NextCalls ==
  \/ Mount
  \/ CallHandleSaveWord
  \/ CallHandleGenerateSentence
  \/ CallHandleDeleteWord
  \/ CallHandleDeleteSentence
  \/ CallSetNewMyanmarWord
  \/ TranslateSettles
  \/ GenerateSettles

\* The calls are made within one millisecond: the clock stands still.
SpecCalls == Init /\ [][NextCalls]_vars

\* ================================================================ claims

\* ---- C1 -----------------------------------------------------------------
\* Some record of list has this id.
HasId(list, id) == \E k \in 1..Len(list) : list[k].id = id

\* after is before with exactly one record, one carrying id, taken out (the
\* others in their order) when id is present, and before itself when it is not.
RemovesExactlyOne(before, after, id) ==
  IF HasId(before, id)
  THEN \E k \in 1..Len(before) : before[k].id = id /\ after = RemoveAt(before, k)
  ELSE after = before

\* C1: a delete of an id from the word collection or from the sentence
\* collection removes exactly one record when the id is present, none when it
\* is absent, and keeps the survivors in order, whatever adds built the
\* collection.
C1_DeleteRemovesExactlyOne ==
  [][ /\ lastEvent'.op = "handleDeleteWord"
           => RemovesExactlyOne(words, words', lastEvent'.arg)
      /\ lastEvent'.op = "handleDeleteSentence"
           => RemovesExactlyOne(generatedSentences, generatedSentences', lastEvent'.arg)
    ]_vars

\* ---- C2 -----------------------------------------------------------------
\* The response text that encodes {indonesianTranslation: t, wordType: c}.
ResponseText(t, c) ==
  <<"{", "indonesianTranslation", ":", QUOTE>> \o EscapeChars(t)
    \o <<QUOTE, ",", "wordType", ":", QUOTE>> \o EscapeChars(c) \o <<QUOTE, "}">>

Translations == {<<"b", QUOTE>>}
WordTypes == {<<"V">>}

\* The step applies a translate response carrying t and c for input w:
\* afterwards the first word has these fields.
SavedAtFront(w, t, c) ==
  /\ Len(words') >= 1
  /\ words'[1].myanmar = w
  /\ words'[1].indonesian = t
  /\ words'[1].type = c

\* The translate request whose response the step applies is the one gone
\* from pending.
Applied(i) == i \in 1..Len(pending) /\ pending' = RemoveAt(pending, i)

\* The fields half of C2: the new word is at index 0 with the submitted input
\* and the response's two fields.
C2_FieldsAtFront ==
  [][ (lastEvent'.op = "translateResolves" /\ lastEvent'.out = "added")
        => \E i \in 1..Len(pending) : \E t \in Translations : \E c \in WordTypes :
             /\ Applied(i)
             /\ lastEvent'.arg = ResponseText(t, c)
             /\ SavedAtFront(pending[i].input, t, c)
    ]_vars

\* C2: when a translate request for input w resolves with a parsable response
\* {indonesianTranslation: t, wordType: c}, the word collection afterwards has
\* at index 0 a record with myanmar = w, indonesian = t, type = c and an id
\* that no other record of the collection has.
C2_SavedWordFreshId ==
  [][ (lastEvent'.op = "translateResolves" /\ lastEvent'.out = "added")
        => /\ \E i \in 1..Len(pending) : \E t \in Translations : \E c \in WordTypes :
                /\ Applied(i)
                /\ lastEvent'.arg = ResponseText(t, c)
                /\ SavedAtFront(pending[i].input, t, c)
           /\ \A k \in 2..Len(words') : words'[k].id # words'[1].id
    ]_vars

\* ---- C3 -----------------------------------------------------------------
\* The step is a call of handleGenerateSentence with fewer than two words.
GenerateWithFewWords == lastEvent'.op = "handleGenerateSentence" /\ Len(words) < 2

\* C3 as claimed: with fewer than two words, handleGenerateSentence sends no
\* request, sets the two-words validation error and leaves both collections
\* alone, with or without an API key.
C3_ValidationErrorAlways ==
  [][ GenerateWithFewWords
        => /\ pending' = pending
           /\ error' = TwoWordsMsg
           /\ words' = words
           /\ generatedSentences' = generatedSentences
    ]_vars

\* C3 amended: with fewer than two words, handleGenerateSentence sends no
\* request and leaves both collections alone; the error it sets is the
\* two-words validation error when the API key is configured and the
\* missing-API-key error when it is not.
C3_NoRequestWithFewWords ==
  [][ GenerateWithFewWords
        => /\ pending' = pending
           /\ error' = (IF ai THEN TwoWordsMsg ELSE ApiKeyMissingMsg)
           /\ words' = words
           /\ generatedSentences' = generatedSentences
    ]_vars

\* handleGenerateSentence has just refused for want of two words, a key being
\* configured and nothing in flight.
C3_Witness ==
  /\ lastEvent.op = "handleGenerateSentence"
  /\ lastEvent.out = "validation"
  /\ ai
  /\ Len(words) = 1
  /\ error = TwoWordsMsg
  /\ pending = <<>>

\* ---- C4 -----------------------------------------------------------------
\* C4: at most one AI request is outstanding, and the busy flag is true
\* exactly while one is.
C4_OneRequestAtATime ==
  /\ Len(pending) <= 1
  /\ loading <=> (Len(pending) = 1)

\* A request is in flight with a word typed and two words present, so that
\* only the busy flag disables the two controls.
C4_Witness ==
  /\ Len(pending) = 1
  /\ loading
  /\ Trim(newMyanmarWord) # <<>>
  /\ Len(words) >= 2
  /\ SaveDisabled
  /\ CreateDisabled

\* ---- C5 -----------------------------------------------------------------
\* C5: once the page runs, each storage entry is the serialization of its
\* in-memory collection as it is after the last mutation, and parsing the
\* entry gives back a collection equal to the in-memory one.
C5_StoredSnapshotRoundTrip ==
  phase = "running" =>
    /\ storage.words = JsonStringify(words, WordKeys)
    /\ storage.sentences = JsonStringify(generatedSentences, SentenceKeys)
    /\ JsonParse(storage.words) = [ok |-> TRUE, val |-> words]
    /\ JsonParse(storage.sentences) = [ok |-> TRUE, val |-> generatedSentences]

\* A word whose translation needs escaping has just been added in front of
\* another one, and a sentence is stored too.
C5_Witness ==
  /\ lastEvent.op = "translateResolves"
  /\ lastEvent.out = "added"
  /\ Len(words) >= 2
  /\ \E k \in 1..Len(words[1].indonesian) : words[1].indonesian[k] = QUOTE
  /\ Len(generatedSentences) >= 1

\* ---- C6 -----------------------------------------------------------------
\* C6: the first effects leave the page running; a missing or malformed entry
\* gives an empty collection, and a well-formed entry is loaded whatever the
\* other entry is.
C6_LoadDefaultsToEmpty ==
  [][ (phase = "init" /\ phase' # "init")
        => /\ phase' = "running"
           /\ storage.words \in {Missing, MalformedEntry} => words' = <<>>
           /\ storage.sentences \in {Missing, MalformedEntry} => generatedSentences' = <<>>
           /\ storage.words = JsonStringify(StoredWords, WordKeys)
                => words' = StoredWords
           /\ storage.sentences = JsonStringify(<<StoredSentence>>, SentenceKeys)
                => generatedSentences' = <<StoredSentence>>
    ]_vars

\* ---- C7 -----------------------------------------------------------------
\* {error && ...}: the message is rendered when it is neither null nor empty.
Visible(e) == e # NoError /\ e # ""

\* The step ends an AI-backed action in an error.
EndsInError == lastEvent'.out \in {"nokey", "rejected", "unparsable"}

\* The step starts no request: pending is as before, or lost the settled one.
NoNewRequest == pending' = pending \/ \E i \in 1..Len(pending) : pending' = RemoveAt(pending, i)

SameLetter(c, d) == c = d \/ {c, d} = {"a", "A"} \/ {c, d} = {"b", "B"}

\* s occurs in text at some offset, case aside.
ContainsIgnoringCase(text, s) ==
  \E off \in 0..(Len(text) - Len(s)) :
    \A k \in 1..Len(s) : SameLetter(text[off + k], s[k])

\* The indices of the words whose myanmar or indonesian text contains s.
MatchingIndices(s) ==
  { k \in 1..Len(words) :
      ContainsIgnoringCase(words[k].myanmar, s) \/ ContainsIgnoringCase(words[k].indonesian, s) }

\* list is the words at the indices of M, in collection order.
IsSubsequenceAt(list, M) ==
  /\ Len(list) = Cardinality(M)
  /\ \A k \in M : list[Cardinality({m \in M : m <= k})] = words[k]

\* C8: the displayed list is the subsequence, in collection order, of the
\* words whose myanmar or indonesian text contains the search term, case
\* aside; it is the whole collection for the empty term; and a change of the
\* search term changes neither the words nor their stored entry.
C8_FilteredWordsIsMatchingSubsequence ==
  /\ [](/\ IsSubsequenceAt(FilteredWords, MatchingIndices(searchTerm))
        /\ searchTerm = <<>> => FilteredWords = words)
  /\ [][lastEvent'.op = "setSearchTerm" => words' = words /\ storage' = storage]_vars

\* The search term has just been changed to one that differs in case from the
\* text it matches, and it keeps some words and drops others.
C8_Witness ==
  /\ lastEvent.op = "setSearchTerm"
  /\ searchTerm = <<"b", "B">>
  /\ Len(FilteredWords) >= 1
  /\ Len(FilteredWords) < Len(words)
  /\ FilteredWords[1] # words[1]

\* ---- C9 -----------------------------------------------------------------
\* The positions of the newlines of text.
NewlinesOf(text) == {i \in 1..Len(text) : text[i] = NL}

\* The position of the n-th newline of text.
NthNewline(text, n) ==
  CHOOSE i \in NewlinesOf(text) : Cardinality({j \in NewlinesOf(text) : j <= i}) = n

\* The n-th newline-delimited line of text, "" when there is none.
LineOf(text, n) ==
  IF n - 1 > Cardinality(NewlinesOf(text)) THEN <<>>
  ELSE LET first == IF n = 1 THEN 1 ELSE NthNewline(text, n - 1) + 1
           last == IF n > Cardinality(NewlinesOf(text)) THEN Len(text)
                   ELSE NthNewline(text, n) - 1
       IN SubSeq(text, first, last)

\* s without its leading and trailing white space.
Trimmed(s) ==
  LET inked == {i \in 1..Len(s) : s[i] \notin {SP, NL}}
  IN IF inked = {} THEN <<>>
     ELSE SubSeq(s, CHOOSE i \in inked : \A j \in inked : i <= j,
                    CHOOSE i \in inked : \A j \in inked : j <= i)

\* A sentence response has just been applied.
SentenceApplied == lastEvent.op = "generateResolves"

\* C9 as claimed: a sentence response T puts at index 0 a record whose
\* myanmar field is the first newline-delimited line of T and whose
\* indonesian field is the second, "" standing for a missing line, later
\* lines being ignored.
C9_FieldsAreLines ==
  SentenceApplied =>
    /\ Len(generatedSentences) >= 1
    /\ generatedSentences[1].myanmar = LineOf(lastEvent.arg, 1)
    /\ generatedSentences[1].indonesian = LineOf(lastEvent.arg, 2)

\* C9 amended: the two fields are the first and the second line of T with
\* their leading and trailing white space removed.
C9_FieldsAreTrimmedLines ==
  SentenceApplied =>
    /\ Len(generatedSentences) >= 1
    /\ generatedSentences[1].myanmar = Trimmed(LineOf(lastEvent.arg, 1))
    /\ generatedSentences[1].indonesian = Trimmed(LineOf(lastEvent.arg, 2))

\* A response of three lines with white space around the first two has just
\* been applied.
C9_Witness ==
  /\ SentenceApplied
  /\ lastEvent.arg = <<SP, "a", SP, NL, "b", SP, NL, "a">>
  /\ Len(generatedSentences) >= 1
  /\ generatedSentences[1].myanmar = <<"a">>
  /\ generatedSentences[1].indonesian = <<"b">>

\* ---- C10 ----------------------------------------------------------------
\* C10: when a translate (sentence) response is applied, the word (sentence)
\* collection becomes the new record followed by the records it held just
\* before, and the stored entry likewise, so that a record deleted while the
\* request was in flight does not come back.
C10_DeleteDuringRequestSticks ==
  [][ /\ (lastEvent'.op = "translateResolves" /\ lastEvent'.out = "added")
           => /\ Len(words') = Len(words) + 1
              /\ Tail(words') = words
              /\ JsonParse(storage'.words).val = <<Head(words')>> \o words
      /\ lastEvent'.op = "generateResolves"
           => /\ Len(generatedSentences') = Len(generatedSentences) + 1
              /\ Tail(generatedSentences') = generatedSentences
              /\ JsonParse(storage'.sentences).val
                   = <<Head(generatedSentences')>> \o generatedSentences
    ]_vars

====
